---- MODULE Spec2Model ----
(***************************************************************************)
(* Model of the OtoNote transcription pipeline:                            *)
(*   transcribe/models.py                        TranscriptionJob          *)
(*   transcribe/views.py                         job_create, job_download  *)
(*   transcribe/management/commands/transcribe_worker.py   Command.handle  *)
(*   transcribe/management/commands/cleanup_orphan_media.py                *)
(*   modal_app.py                                run_transcription         *)
(*                                                                         *)
(* Strings are sequences of tokens (a token is a character or an atomic    *)
(* piece of text), so that concatenation, strip() and join() are computed. *)
(* Times of diarization segments are integers in units of 0.01 s.          *)
(* Wall-clock timestamps are integers >= 1; NULL is the value Null.        *)
(*                                                                         *)
(* Environment: writes to the job table and to stdout do not fail, the     *)
(* removal of the working directory succeeds, a worker process ends only   *)
(* by an exception that leaves handle() (in CrashSpec also by being        *)
(* stopped from outside), and floating-point rounding of segment times is  *)
(* ignored.  MergeSpec runs merge_segments by itself on bounded inputs,    *)
(* RunSpec the labelling loop of run_transcription; CleanupSpec runs the   *)
(* cleanup command beside one worker.                                      *)
(***************************************************************************)
EXTENDS Integers, Sequences, FiniteSets, TLC

\* ------------------------------------------------------------------ bounds
\* The product of all bounds is out of reach, so a run is one of three
\* slices, chosen in Init: a pool of workers with a short queue and short
\* diarizations, one worker with long diarizations, and one worker with a
\* longer queue.  In each: the number of worker processes, of submitted
\* jobs, of diarization turns returned in total, and of clock values.
PoolWorkers == 2
PoolJobs == 2
PoolTurns == 1
PoolTime == 2
SoloJobs == 1
SoloTurns == 3
SoloTime == 2
SerialJobs == 3
SerialTurns == 1
SerialTime == 1
\* environment failures (tool, model, backend) injected in one run
MaxFaults == 1
\* the slice of the cleanup command: one worker beside it
CleanupJobs == 2
CleanupTurns == 1
CleanupTime == 1
\* job ids for which a client requests the download
MaxDownloadId == 1

\* ------------------------------------------------------- program constants
MIN_DUR == 120
GAP == 40
SKIP_DUR == 10
Null == 0 - 1

\* ------------------------------------------------------------ input spaces
ModelNames == {"small"}
Languages == {"ja"}
\* state of the job's input_file reference: none, a readable file, a
\* reference whose file the worker cannot read
InputFiles == {"", "input/ok.wav", "input/gone.wav"}
\* os.environ.get("HF_TOKEN", ""): unset, blank, set
HfTokens == {<<>>, <<" ">>, <<"hf_tok", "\n">>}
Speakers == {"SPEAKER_00", "SPEAKER_01"}
SegTimes == {0, 5, 130}
WS == {" ", "\n"}
Texts == {<<" ">>, <<" ", "a", " ", "b", "\n">>}
\* res.get("text"): the key may be absent/None
AsrResults == {[present |-> FALSE, text |-> <<>>]}
                \cup {[present |-> TRUE, text |-> t] : t \in Texts}

Statuses == {"queued", "running", "done", "error"}

Min2(a, b) == IF a <= b THEN a ELSE b
Max2(a, b) == IF a >= b THEN a ELSE b
MaxJobs == Max2(Max2(PoolJobs, CleanupJobs), Max2(SoloJobs, SerialJobs))

VARIABLES
  db,           \* the TranscriptionJob table: sequence of rows, index = id
  now,          \* the wall clock read by auto_now_add / timezone.now()
  hf_token,     \* os.environ["HF_TOKEN"] of the worker processes
  nworkers,     \* number of worker processes that were started
  pc,           \* position of each worker in Command.handle
  job,          \* each worker's in-memory ORM object `job`
  model_cache,  \* each worker's model_cache (set of loaded model names)
  segments,     \* each worker's merged `segments`
  idx,          \* each worker's loop index `idx` (segments consumed)
  results,      \* each worker's `results` (list of lines)
  work,         \* file system: entries below job_<id>_temp, per job id
  claimers,     \* history: workers whose locked re-read flipped the job
  log,          \* history: external calls made for each job, in order
  faults,       \* exploration budget: environment failures injected so far
  turns,        \* exploration budget: diarization turns returned so far
  cap,          \* exploration budget of this run: [jobs, turns, time]
  mg,           \* one call of merge_segments: its arguments and locals
  resp,         \* the response of the last job_download request
  cl,           \* one run of cleanup_orphan_media, and the input files
                \* it has deleted
  rt            \* one call of run_transcription (the remote engine)

vars == <<db, now, hf_token, nworkers, pc, job, model_cache, segments, idx,
          results, work, claimers, log, faults, turns, cap, mg, resp, cl, rt>>

Workers == 1..nworkers
JobIds == 1..Len(db)

\* ----------------------------------------------------------------- helpers

\* values timezone.now() can return: the clock does not run backwards
Stamps == {t \in {now, now + 1} : t <= cap.time}

NoJob == [id |-> 0, status |-> "queued", progress |-> 0, created_at |-> Null,
          started_at |-> Null, finished_at |-> Null, model_name |-> "small",
          language |-> "auto", diarize |-> TRUE, input_file |-> "",
          output_text |-> <<>>, error_message |-> <<>>]

\* str.strip()
RECURSIVE LStrip(_)
LStrip(s) == IF s # <<>> /\ Head(s) \in WS THEN LStrip(Tail(s)) ELSE s

RECURSIVE RStrip(_)
RStrip(s) == IF s # <<>> /\ s[Len(s)] \in WS
             THEN RStrip(SubSeq(s, 1, Len(s) - 1)) ELSE s

Strip(s) == RStrip(LStrip(s))

\* faulty variant: the text is stored as returned
ResTextUntrimmed(res) == IF res.present THEN res.text ELSE <<>>

\* (res.get("text") or "").strip()
ResText(res) == Strip(IF res.present THEN res.text ELSE <<>>)

\* f"{type(e).__name__}: {e}"
FormatError(e) == <<e.kind, ": ", e.msg>>

\* faulty variant: the lines are joined by a blank
RECURSIVE JoinBlank(_)
JoinBlank(lines) == IF lines = <<>> THEN <<>>
                    ELSE IF Len(lines) = 1 THEN lines[1]
                    ELSE lines[1] \o <<" ">> \o JoinBlank(Tail(lines))

\* "\n".join(lines)
RECURSIVE Join(_)
Join(lines) == IF lines = <<>> THEN <<>>
               ELSE IF Len(lines) = 1 THEN lines[1]
               ELSE lines[1] \o <<"\n">> \o Join(Tail(lines))

\* f"[{speaker}]: {text}"
Line(speaker, text) == <<"[", speaker, "]: ">> \o text

\* faulty variant: the share of the segments still to do
PercentRemaining(i, total) == ((total - i) * 100) \div total

\* int(idx * 100 / total)
Percent(i, total) == (i * 100) \div total


\* ------------------------------------------------------- diarization data
\* a raw diarization turn {"speaker", "start", "end"} with end > start
SegUniverse == {s \in [speaker : Speakers, start : SegTimes, end : SegTimes] :
                  s.end > s.start}

\* what diarization.itertracks can yield: any list of at most n turns
RawSegLists(n) == UNION {[1..k -> SegUniverse] : k \in 0..n}

\* segments.sort(key=lambda x: x["start"])  (stable)
RECURSIVE InsertByStart(_, _)
InsertByStart(sorted, s) ==
  IF sorted = <<>> THEN <<s>>
  ELSE IF sorted[Len(sorted)].start <= s.start THEN Append(sorted, s)
  ELSE Append(InsertByStart(SubSeq(sorted, 1, Len(sorted) - 1), s),
              sorted[Len(sorted)])

RECURSIVE SortByStart(_)
SortByStart(segs) ==
  IF segs = <<>> THEN <<>>
  ELSE InsertByStart(SortByStart(SubSeq(segs, 1, Len(segs) - 1)),
                     segs[Len(segs)])

\* faulty variant: the open segment takes the end of the last coalesced one
RECURSIVE CoalesceLastEnd(_, _, _)
CoalesceLastEnd(merged, rest, gap) ==
  IF rest = <<>> THEN merged
  ELSE LET s == Head(rest)
           last == merged[Len(merged)]
       IN IF s.speaker = last.speaker /\ (s.start - last.end) <= gap
          THEN CoalesceLastEnd([merged EXCEPT ![Len(merged)].end = s.end],
                               Tail(rest), gap)
          ELSE CoalesceLastEnd(Append(merged, s), Tail(rest), gap)

\* merge_segments, first loop: coalesce a segment into the open one when the
\* speaker is the same and the silence between them is at most gap
RECURSIVE Coalesce(_, _, _)
Coalesce(merged, rest, gap) ==
  IF rest = <<>> THEN merged
  ELSE LET s == Head(rest)
           last == merged[Len(merged)]
       IN IF s.speaker = last.speaker /\ (s.start - last.end) <= gap
          THEN Coalesce([merged EXCEPT ![Len(merged)].end = Max2(last.end, s.end)],
                        Tail(rest), gap)
          ELSE Coalesce(Append(merged, s), Tail(rest), gap)

\* faulty variant: the second loop emits every segment
AbsorbNone(fixed, rest, min_dur) == fixed \o rest

\* faulty variant: a segment of exactly min_dur is absorbed as well
RECURSIVE AbsorbAtMost(_, _, _)
AbsorbAtMost(fixed, rest, min_dur) ==
  IF rest = <<>> THEN fixed
  ELSE LET s == Head(rest)
       IN IF fixed # <<>> /\ (s.end - s.start) <= min_dur
          THEN AbsorbAtMost([fixed EXCEPT ![Len(fixed)].end = s.end],
                            Tail(rest), min_dur)
          ELSE AbsorbAtMost(Append(fixed, s), Tail(rest), min_dur)

\* merge_segments, second loop: a segment shorter than min_dur gives its end
\* to the previous output segment
RECURSIVE Absorb(_, _, _)
Absorb(fixed, rest, min_dur) ==
  IF rest = <<>> THEN fixed
  ELSE LET s == Head(rest)
       IN IF fixed # <<>> /\ (s.end - s.start) < min_dur
          THEN Absorb([fixed EXCEPT ![Len(fixed)].end = s.end], Tail(rest), min_dur)
          ELSE Absorb(Append(fixed, s), Tail(rest), min_dur)

\* faulty variant: the first loop copies every segment
Pass1Skipped(segs, gap) == segs

\* merged = [segments[0].copy()]; for s in segments[1:]: ...
Pass1(segs, gap) ==
  IF segs = <<>> THEN <<>> ELSE Coalesce(<<Head(segs)>>, Tail(segs), gap)

\* faulty variant: the second loop is left out
merge_segments_pass1(segs, min_dur, gap) == Pass1(segs, gap)

merge_segments(segs, min_dur, gap) ==
  IF segs = <<>> THEN <<>>
  ELSE Absorb(<<>>, Pass1(segs, gap), min_dur)

\* ------------------------------------------------------------- exceptions
Exc(kind, msg) == [kind |-> kind, msg |-> msg]
LoadErrors == {Exc("RuntimeError", "model load failed")}
\* run(): non-zero exit; subprocess.run: the ffmpeg binary is absent
FfmpegErrors == {Exc("FileNotFoundError", "ffmpeg")}
\* run() on an input file that cannot be read: ffmpeg exits non-zero
UnreadableError == Exc("RuntimeError", "Command failed")
\* faulty variant: the failure is reported without naming the token
HfTokenErrorGeneric == Exc("RuntimeError", "diarization failed")

HfTokenError == Exc("RuntimeError", "HF_TOKEN is missing. Set HF_TOKEN in environment variables.")
DiarErrors == {Exc("Exception", "diarization failed")}
AsrErrors == {Exc("RuntimeError", "transcription failed")}
\* model.transcribe on a path that does not exist (whisper's load_audio)
LoadAudioError == Exc("RuntimeError", "Failed to load audio")

\* ------------------------------------------------------ file system names
WorkDir == [name |-> "job_temp", n |-> 0]
WavFile == [name |-> "audio_16k.wav", n |-> 0]
SegFile(i) == [name |-> "seg.wav", n |-> i]

\* ---------------------------------------------------------- history log
NoRes == [present |-> FALSE, text |-> <<>>]
Call(op, arg, lang, ret) == [op |-> op, arg |-> arg, lang |-> lang, ret |-> ret]

\* kwargs["language"] is set only for a language other than "" and "auto"
LangHint(j) == IF j.language # "" /\ j.language # "auto" THEN j.language ELSE "none"

Logged(j, calls) == [log EXCEPT ![j] = @ \o calls]

\* ------------------------------------------------------------------- Init
ASlice(w, j, n, t) == [workers |-> w, jobs |-> j, turns |-> n, time |-> t]
PoolSlice == ASlice(PoolWorkers, PoolJobs, PoolTurns, PoolTime)
SoloSlice == ASlice(1, SoloJobs, SoloTurns, SoloTime)
SerialSlice == ASlice(1, SerialJobs, SerialTurns, SerialTime)
Slices == {PoolSlice, SoloSlice, SerialSlice}

\* the cleanup command is not running and has deleted nothing
ClIdle == [pc |-> "idle", referenced |-> {}, listed |-> {}, dirs |-> {},
           sub |-> {}, deleted |-> {}]

\* no download has been requested
NoResp == [id |-> 0, code |-> 0, body |-> <<>>]

\* no call of merge_segments outside a worker is in progress
MgIdle == [pc |-> "idle", segments |-> <<>>, min_dur |-> MIN_DUR, gap |-> GAP,
           merged |-> <<>>, fixed |-> <<>>, again |-> <<>>]

WorkerInitIn(slices) ==
  /\ db = <<>>
  /\ now = 1
  /\ hf_token \in HfTokens
  /\ \E sl \in slices : nworkers = sl.workers /\ cap = [jobs |-> sl.jobs, turns |-> sl.turns, time |-> sl.time]
  /\ pc = [w \in 1..nworkers |-> "select"]
  /\ job = [w \in 1..nworkers |-> NoJob]
  /\ model_cache = [w \in 1..nworkers |-> {}]
  /\ segments = [w \in 1..nworkers |-> <<>>]
  /\ idx = [w \in 1..nworkers |-> 0]
  /\ results = [w \in 1..nworkers |-> <<>>]
  /\ work = [j \in 1..MaxJobs |-> {}]
  /\ claimers = [j \in 1..MaxJobs |-> {}]
  /\ log = [j \in 1..MaxJobs |-> <<>>]
  /\ faults = 0
  /\ turns = 0
  /\ resp = NoResp

WorkerInit == WorkerInitIn(Slices)

\* no call of run_transcription is in progress
RtIdle == [pc |-> "idle", turns |-> <<>>, audio_len |-> 0, final_lines |-> <<>>,
           text |-> <<>>]

Init == WorkerInit /\ mg = MgIdle /\ cl = ClIdle /\ rt = RtIdle

\* ----------------------------------------------------------- job_create
NewJob(id, t, m, l, d, f) ==
  [id |-> id, status |-> "queued", progress |-> 0, created_at |-> t,
   started_at |-> Null, finished_at |-> Null, model_name |-> m,
   language |-> l, diarize |-> d, input_file |-> f,
   output_text |-> <<>>, error_message |-> <<>>]

Submit ==
  /\ Len(db) < cap.jobs
  /\ \E t \in Stamps, m \in ModelNames, l \in Languages, d \in BOOLEAN,
        f \in InputFiles :
       /\ db' = Append(db, NewJob(Len(db) + 1, t, m, l, d, f))
       /\ now' = t
  /\ UNCHANGED <<hf_token, nworkers, pc, job, model_cache, segments, idx,
                 results, work, claimers, log, faults, turns, cap, mg, resp, cl, rt>>

\* ---------------------------------------------------------- job_download
\* faulty variant: the view does not look at the status
DownloadResponseAny(id) ==
  IF id \in JobIds
  THEN [id |-> id, code |-> 200, body |-> db[id].output_text]
  ELSE [id |-> id, code |-> 404, body |-> <<>>]

\* Http404 unless the row exists and is done; else its output_text
DownloadResponse(id) ==
  IF id \in JobIds /\ db[id].status = "done"
  THEN [id |-> id, code |-> 200, body |-> db[id].output_text]
  ELSE [id |-> id, code |-> 404, body |-> <<>>]

Download ==
  /\ \E id \in 1..MaxDownloadId : resp' = DownloadResponse(id)
  /\ UNCHANGED <<db, now, hf_token, nworkers, pc, job, model_cache, segments,
                 idx, results, work, claimers, log, faults, turns, cap, mg, cl, rt>>

\* ------------------------------------------------- worker: Command.handle
\* faulty variant: rows left running are candidates again
QueuedOrRunning == {j \in JobIds : db[j].status \in {"queued", "running"}}

\* .filter(status="queued")
Queued == {j \in JobIds : db[j].status = "queued"}

\* faulty variant: the query has no order_by
IsFirstQueuedUnordered(j) == j \in Queued

\* .filter(status="queued").order_by("created_at").first(): a queued row
\* with the least created_at (the query states no second sort key)
IsFirstQueued(j) ==
  /\ j \in Queued
  /\ \A k \in Queued : db[j].created_at <= db[k].created_at

\* faulty variant: the re-check after the lock is missing
StillQueuedUnchecked(row) == row.status \in Statuses

\* if job.status != "queued": continue
StillQueued(row) == row.status = "queued"

\* faulty variant: the claim stamps created_at as well
ClaimedRowRestamped(row, t) ==
  [row EXCEPT !.status = "running", !.started_at = t, !.created_at = t,
              !.progress = 0, !.error_message = <<>>]

\* job.status = "running"; started_at = now(); progress = 0; error_message = ""
ClaimedRow(row, t) ==
  [row EXCEPT !.status = "running", !.started_at = t, !.progress = 0,
              !.error_message = <<>>]

\* faulty variant: the success save does not stamp finished_at
DoneRowUnstamped(j, text, t) ==
  [j EXCEPT !.output_text = text, !.status = "done", !.progress = 100]

\* faulty variant: the terminal save leaves the progress as it is
DoneRowKeepProgress(j, text, t) ==
  [j EXCEPT !.output_text = text, !.status = "done", !.finished_at = t]

\* output_text = text; status = "done"; progress = 100; finished_at = now()
DoneRow(j, text, t) ==
  [j EXCEPT !.output_text = text, !.status = "done", !.progress = 100,
            !.finished_at = t]

\* faulty variant: a failed job is put back into the queue
ErrorRowRequeue(j, e, t) ==
  [j EXCEPT !.status = "queued", !.error_message = FormatError(e),
            !.finished_at = t]

\* faulty variant: the except block does not record the exception
ErrorRowNoMessage(j, e, t) ==
  [j EXCEPT !.status = "error", !.finished_at = t]

\* status = "error"; error_message = f"{type(e).__name__}: {e}"; finished_at
ErrorRow(j, e, t) ==
  [j EXCEPT !.status = "error", !.error_message = FormatError(e),
            !.finished_at = t]

\* job.save(): every field of the in-memory object is written to its row
SaveAll(w, j) ==
  /\ db' = [db EXCEPT ![j.id] = j]
  /\ job' = [job EXCEPT ![w] = j]

\* faulty variant: a progress of 100 is stored together with status done
SaveProgressDone(w, j) ==
  /\ db' = [db EXCEPT ![j.id].progress = j.progress,
                      ![j.id].status = IF j.progress = 100 THEN "done" ELSE @]
  /\ job' = [job EXCEPT ![w] = j]

\* job.save(update_fields=["progress"])
SaveProgress(w, j) ==
  /\ db' = [db EXCEPT ![j.id].progress = j.progress]
  /\ job' = [job EXCEPT ![w] = j]

\* faulty variant: the exception is swallowed without a terminal save
ExceptSkipSave(w, e) ==
  /\ UNCHANGED <<db, job, now>>
  /\ pc' = [pc EXCEPT ![w] = "finally"]

\* the except block: the job becomes "error"; control goes to finally
Except(w, e) ==
  /\ \E t \in Stamps : SaveAll(w, ErrorRow(job[w], e, t)) /\ now' = t
  /\ pc' = [pc EXCEPT ![w] = "finally"]

\* an exception the code raises by itself on this input
Raise(w, e) == Except(w, e) /\ UNCHANGED faults

\* an exception of the environment (tool, model or backend failure)
Fault(w, errs) ==
  /\ faults < MaxFaults
  /\ faults' = faults + 1
  /\ \E e \in errs : Except(w, e)

\* the uploaded file of the job is on the disk and can be read
InputReadable(j) == j.input_file = "input/ok.wav" /\ j.id \notin cl.deleted

\* 1) select the oldest queued job, or sleep when there is none
Select(w) ==
  /\ pc[w] = "select"
  /\ IF Queued = {}
     THEN UNCHANGED <<job, pc>>
     ELSE \E j \in JobIds :
            /\ IsFirstQueued(j)
            /\ job' = [job EXCEPT ![w] = db[j]]
            /\ pc' = [pc EXCEPT ![w] = "lock"]
  /\ UNCHANGED <<db, now, hf_token, nworkers, model_cache, segments, idx,
                 results, work, claimers, log, faults, turns, cap, mg, resp, cl, rt>>

\* 2) transaction.atomic(): select_for_update re-read, re-check, flip
Claim(w) ==
  /\ pc[w] = "lock"
  /\ LET row == db[job[w].id]
     IN IF StillQueued(row)
        THEN /\ \E t \in Stamps : SaveAll(w, ClaimedRow(row, t)) /\ now' = t
             /\ claimers' = [claimers EXCEPT ![row.id] = @ \cup {w}]
             /\ pc' = [pc EXCEPT ![w] = "setup"]
        ELSE /\ job' = [job EXCEPT ![w] = NoJob]
             /\ pc' = [pc EXCEPT ![w] = "select"]
             /\ UNCHANGED <<db, now, claimers>>
  /\ UNCHANGED <<hf_token, nworkers, model_cache, segments, idx, results,
                 work, log, faults, turns, cap, mg, resp, cl, rt>>

\* 3) input_path = Path(job.input_file.path); work_dir.mkdir(...)
\*    (before the try: a job without a file raises ValueError out of handle)
Setup(w) ==
  /\ pc[w] = "setup"
  /\ IF job[w].input_file = ""
     THEN /\ pc' = [pc EXCEPT ![w] = "crashed"]
          /\ UNCHANGED work
     ELSE /\ work' = [work EXCEPT ![job[w].id] = @ \cup {WorkDir}]
          /\ pc' = [pc EXCEPT ![w] = "load"]
  /\ UNCHANGED <<db, now, hf_token, nworkers, job, model_cache, segments,
                 idx, results, claimers, log, faults, turns, cap, mg, resp, cl, rt>>

\* 4) whisper.load_model, memoised in model_cache
LoadModel(w) ==
  /\ pc[w] = "load"
  /\ IF job[w].model_name \in model_cache[w]
     THEN /\ pc' = [pc EXCEPT ![w] = "transcode"]
          /\ UNCHANGED <<db, now, job, model_cache, log, faults>>
     ELSE /\ log' = Logged(job[w].id, <<Call("load_model", 0, "none", NoRes)>>)
          /\ \/ /\ model_cache' = [model_cache EXCEPT ![w] = @ \cup {job[w].model_name}]
                /\ pc' = [pc EXCEPT ![w] = "transcode"]
                /\ UNCHANGED <<db, now, job, faults>>
             \/ /\ Fault(w, LoadErrors)
                /\ UNCHANGED model_cache
  /\ UNCHANGED <<hf_token, nworkers, segments, idx, results, work, claimers,
                 turns, cap, mg, resp, cl, rt>>

\* 5) ensure_wav_16k_mono(input_path, wav_16k)
Transcode(w) ==
  /\ pc[w] = "transcode"
  /\ log' = Logged(job[w].id, <<Call("ffmpeg", 0, "none", NoRes)>>)
  /\ IF InputReadable(job[w]) /\ WorkDir \in work[job[w].id]
     THEN \/ /\ work' = [work EXCEPT ![job[w].id] = @ \cup {WavFile}]
             /\ pc' = [pc EXCEPT ![w] = IF job[w].diarize THEN "diarize" ELSE "whole"]
             /\ UNCHANGED <<db, now, job, faults>>
          \/ /\ Fault(w, FfmpegErrors)
             /\ UNCHANGED work
     ELSE /\ Raise(w, UnreadableError)
          /\ UNCHANGED work
  /\ UNCHANGED <<hf_token, nworkers, model_cache, segments, idx, results,
                 claimers, turns, cap, mg, resp, cl, rt>>

\* 6) diarize = False: one transcription of the whole file, then done
TranscribeWhole(w) ==
  /\ pc[w] = "whole"
  /\ IF WavFile \in work[job[w].id]
     THEN \/ \E res \in AsrResults, t \in Stamps :
               /\ log' = Logged(job[w].id,
                                <<Call("asr", 0, LangHint(job[w]), res)>>)
               /\ SaveAll(w, DoneRow(job[w], ResText(res), t))
               /\ now' = t
               /\ pc' = [pc EXCEPT ![w] = "finally"]
               /\ UNCHANGED faults
          \/ /\ log' = Logged(job[w].id,
                               <<Call("asr", 0, LangHint(job[w]), NoRes)>>)
             /\ Fault(w, AsrErrors)
     ELSE /\ log' = Logged(job[w].id,
                           <<Call("asr", 0, LangHint(job[w]), NoRes)>>)
          /\ Raise(w, LoadAudioError)
  /\ UNCHANGED <<hf_token, nworkers, model_cache, segments, idx, results,
                 work, claimers, turns, cap, mg, resp, cl, rt>>

\* 7) diarize_with_pyannote(input_path, work_dir), then merge_segments
Diarize(w) ==
  /\ pc[w] = "diarize"
  /\ IF Strip(hf_token) = <<>>
     THEN /\ Raise(w, HfTokenError)
          /\ UNCHANGED <<work, log, segments, idx, results, turns>>
     ELSE \/ /\ log' = Logged(job[w].id, <<Call("ffmpeg", 0, "none", NoRes)>>)
             /\ Fault(w, FfmpegErrors)
             /\ work' = [work EXCEPT ![job[w].id] = @ \cup {WorkDir}]
             /\ UNCHANGED <<segments, idx, results, turns>>
          \/ /\ ~InputReadable(job[w])
             /\ log' = Logged(job[w].id, <<Call("ffmpeg", 0, "none", NoRes)>>)
             /\ Raise(w, UnreadableError)
             /\ work' = [work EXCEPT ![job[w].id] = @ \cup {WorkDir}]
             /\ UNCHANGED <<segments, idx, results, turns>>
          \/ /\ InputReadable(job[w])
             /\ log' = Logged(job[w].id, <<Call("ffmpeg", 0, "none", NoRes),
                                           Call("diarize", 0, "none", NoRes)>>)
             /\ work' = [work EXCEPT ![job[w].id] = @ \cup {WorkDir, WavFile}]
             /\ \/ /\ Fault(w, DiarErrors)
                   /\ UNCHANGED <<segments, idx, results, turns>>
                \/ /\ \E raw \in RawSegLists(cap.turns - turns) :
                        /\ segments' = [segments EXCEPT ![w] =
                             merge_segments(SortByStart(raw), MIN_DUR, GAP)]
                        /\ turns' = turns + Len(raw)
                   /\ results' = [results EXCEPT ![w] = <<>>]
                   /\ idx' = [idx EXCEPT ![w] = 0]
                   /\ pc' = [pc EXCEPT ![w] = "seg"]
                   /\ UNCHANGED <<db, now, job, faults>>
  /\ UNCHANGED <<hf_token, nworkers, model_cache, claimers, cap, mg, resp, cl, rt>>

\* total = len(segments) or 1
Total(segs) == IF Len(segs) = 0 THEN 1 ELSE Len(segs)

\* duration < 0.1: the segment is skipped
TooShort(seg) == (seg.end - seg.start) < SKIP_DUR

\* 8) loop head: next segment; skip it, or cut it out of the waveform
Slice(w) ==
  /\ pc[w] = "seg"
  /\ idx[w] < Len(segments[w])
  /\ LET i == idx[w] + 1
         seg == segments[w][i]
     IN /\ idx' = [idx EXCEPT ![w] = i]
        /\ IF TooShort(seg)
           THEN UNCHANGED <<db, now, job, pc, work, log, faults>>
           ELSE /\ log' = Logged(job[w].id, <<Call("ffmpeg", i, "none", NoRes)>>)
                /\ IF {WorkDir, WavFile} \subseteq work[job[w].id]
                   THEN \/ /\ work' = [work EXCEPT ![job[w].id] =
                                          @ \cup {SegFile(i)}]
                           /\ pc' = [pc EXCEPT ![w] = "asr"]
                           /\ UNCHANGED <<db, now, job, faults>>
                        \/ /\ Fault(w, FfmpegErrors)
                           /\ UNCHANGED work
                   ELSE /\ Raise(w, UnreadableError)
                        /\ UNCHANGED work
  /\ UNCHANGED <<hf_token, nworkers, model_cache, segments, results, claimers,
                 turns, cap, mg, resp, cl, rt>>

\* 8) loop body: transcribe the slice, append the line, write the progress
TranscribeSegment(w) ==
  /\ pc[w] = "asr"
  /\ LET i == idx[w]
         seg == segments[w][i]
     IN \/ \E res \in AsrResults :
             /\ SegFile(i) \in work[job[w].id]
             /\ log' = Logged(job[w].id, <<Call("asr", i, LangHint(job[w]), res)>>)
             /\ results' = [results EXCEPT ![w] =
                  IF ResText(res) # <<>>
                  THEN Append(@, Line(seg.speaker, ResText(res))) ELSE @]
             /\ SaveProgress(w, [job[w] EXCEPT
                                   !.progress = Percent(i, Total(segments[w]))])
             /\ pc' = [pc EXCEPT ![w] = "seg"]
             /\ UNCHANGED <<now, faults>>
        \/ /\ SegFile(i) \in work[job[w].id]
           /\ log' = Logged(job[w].id, <<Call("asr", i, LangHint(job[w]), NoRes)>>)
           /\ Fault(w, AsrErrors)
           /\ UNCHANGED results
        \/ /\ SegFile(i) \notin work[job[w].id]
           /\ log' = Logged(job[w].id, <<Call("asr", i, LangHint(job[w]), NoRes)>>)
           /\ Raise(w, LoadAudioError)
           /\ UNCHANGED results
  /\ UNCHANGED <<hf_token, nworkers, model_cache, segments, idx, work, claimers,
                 turns, cap, mg, resp, cl, rt>>

\* 9) after the loop: output_text = "\n".join(results), done
FinishOk(w) ==
  /\ pc[w] = "seg"
  /\ idx[w] = Len(segments[w])
  /\ \E t \in Stamps :
       /\ SaveAll(w, DoneRow(job[w], Join(results[w]), t))
       /\ now' = t
  /\ pc' = [pc EXCEPT ![w] = "finally"]
  /\ UNCHANGED <<hf_token, nworkers, model_cache, segments, idx, results,
                 work, claimers, log, faults, turns, cap, mg, resp, cl, rt>>

\* faulty variant: os.rmdir, which removes a directory only when it is empty
RmtreeOnlyEmpty(entries) == IF entries \subseteq {WorkDir} THEN {} ELSE entries

\* shutil.rmtree(work_dir): the directory and all below it are removed
Rmtree(entries) == {}

\* 11) finally: shutil.rmtree(work_dir); back to the head of the loop
\*     (the loop's local variables are dead there and are reset)
Finally(w) ==
  /\ pc[w] = "finally"
  /\ work' = [work EXCEPT ![job[w].id] = Rmtree(@)]
  /\ job' = [job EXCEPT ![w] = NoJob]
  /\ segments' = [segments EXCEPT ![w] = <<>>]
  /\ idx' = [idx EXCEPT ![w] = 0]
  /\ results' = [results EXCEPT ![w] = <<>>]
  /\ pc' = [pc EXCEPT ![w] = "select"]
  /\ UNCHANGED <<db, now, hf_token, nworkers, model_cache, claimers, log,
                 faults, turns, cap, mg, resp, cl, rt>>

WorkerStep(w) ==
  \/ Select(w)
  \/ Claim(w)
  \/ Setup(w)
  \/ LoadModel(w)
  \/ Transcode(w)
  \/ TranscribeWhole(w)
  \/ Diarize(w)
  \/ Slice(w)
  \/ TranscribeSegment(w)
  \/ FinishOk(w)
  \/ Finally(w)

Next ==
  \/ Submit
  \/ Download
  \/ \E w \in Workers : Select(w)
  \/ \E w \in Workers : Claim(w)
  \/ \E w \in Workers : Setup(w)
  \/ \E w \in Workers : LoadModel(w)
  \/ \E w \in Workers : Transcode(w)
  \/ \E w \in Workers : TranscribeWhole(w)
  \/ \E w \in Workers : Diarize(w)
  \/ \E w \in Workers : Slice(w)
  \/ \E w \in Workers : TranscribeSegment(w)
  \/ \E w \in Workers : FinishOk(w)
  \/ \E w \in Workers : Finally(w)

Spec == Init /\ [][Next]_vars

\* A worker process runs as long as it has not died: each of its steps is
\* eventually taken.  Submissions are the environment's and are not fair.
Fairness == \A w \in 1..PoolWorkers : WF_vars(w \in Workers /\ WorkerStep(w))

\* one worker and the longer queue, with the worker scheduled fairly
SerialInit == Init /\ nworkers = 1 /\ cap.jobs = SerialJobs

FairSpec == SerialInit /\ [][Next]_vars /\ Fairness

\* ------------------------------------------------- a worker that is stopped
\* The operating system stops a worker process (kill, out of memory, power)
\* at any position of handle(): nothing of the process runs afterwards,
\* neither the except block nor finally.  It is an environment failure and
\* counts against MaxFaults.
Kill(w) ==
  /\ pc[w] # "crashed"
  /\ faults < MaxFaults
  /\ faults' = faults + 1
  /\ pc' = [pc EXCEPT ![w] = "crashed"]
  /\ UNCHANGED <<db, now, hf_token, nworkers, job, model_cache, segments, idx,
                 results, work, claimers, log, turns, cap, mg, resp, cl, rt>>

\* the pool of workers, any of which may be stopped
CrashInit == Init /\ nworkers = PoolWorkers

CrashNext == Next \/ \E w \in Workers : Kill(w)

CrashSpec == CrashInit /\ [][CrashNext]_vars

\* ------------------------------------ cleanup_orphan_media: Command.handle
\* One run of the command without --dry-run, step by step, beside the
\* submissions and one worker.  The uploaded file of job j is the file
\* input/<name of j> below MEDIA_ROOT (every upload gets a name of its own; a
\* job whose input_file is "input/gone.wav" has no file on the disk); the
\* working directory of job j is input/job_<j>_temp.  cl.referenced, cl.listed
\* and cl.deleted hold uploaded files by the id of their job, cl.dirs working
\* directories by the id of their job, cl.sub the files of one working
\* directory.  Path.rglob lists a directory when it comes to it: first the
\* entries of input/, then the directories in input/, then each of them.

\* the uploaded files on the disk
InputOnDisk == {j \in JobIds : db[j].input_file = "input/ok.wav"
                                 /\ j \notin cl.deleted}

\* the working directories on the disk
WorkDirs == {j \in JobIds : WorkDir \in work[j]}

\* MEDIA_ROOT/input exists once a file has been uploaded
TargetDirExists == \E j \in JobIds : db[j].input_file # ""

CleanupFrame ==
  UNCHANGED <<db, now, hf_token, nworkers, pc, job, model_cache, segments, idx,
              results, claimers, log, faults, turns, cap, mg, resp, rt>>

\* the target directory is looked up, and the referenced names are read
CleanupStart ==
  /\ cl.pc = "idle"
  /\ cl' = IF TargetDirExists
           THEN [cl EXCEPT !.pc = "walk",
                           !.referenced = {j \in JobIds : db[j].input_file # ""}]
           ELSE [cl EXCEPT !.pc = "done"]
  /\ CleanupFrame /\ UNCHANGED work

\* rglob: the entries of input/ are listed
CleanupList ==
  /\ cl.pc = "walk"
  /\ cl' = [cl EXCEPT !.pc = "files", !.listed = InputOnDisk]
  /\ CleanupFrame /\ UNCHANGED work

\* loop body on a file of input/: kept when referenced, unlinked otherwise
CleanupVisitFile ==
  /\ cl.pc = "files"
  /\ \E j \in cl.listed :
       cl' = [cl EXCEPT !.listed = @ \ {j},
                        !.deleted = IF j \in cl.referenced THEN @ ELSE @ \cup {j}]
  /\ CleanupFrame /\ UNCHANGED work

\* rglob: input/ is listed again for its directories
CleanupDirs ==
  /\ cl.pc = "files" /\ cl.listed = {}
  /\ cl' = [cl EXCEPT !.pc = "dirs", !.dirs = WorkDirs]
  /\ CleanupFrame /\ UNCHANGED work

\* rglob: the entries of the next directory are listed
CleanupEnter ==
  /\ cl.pc = "dirs" /\ cl.sub = {}
  /\ \E j \in cl.dirs :
       cl' = [cl EXCEPT !.dirs = @ \ {j},
                        !.sub = {<<j, f>> : f \in work[j] \ {WorkDir}}]
  /\ CleanupFrame /\ UNCHANGED work

\* loop body on a file of a working directory: no job names it, so it is
\* unlinked (FileNotFoundError is ignored)
CleanupVisitSub ==
  /\ cl.pc = "dirs"
  /\ \E e \in cl.sub :
       /\ cl' = [cl EXCEPT !.sub = @ \ {e}]
       /\ work' = [work EXCEPT ![e[1]] = @ \ {e[2]}]
  /\ CleanupFrame

\* after the loop: sorted(target_dir.rglob("*"), reverse=True)
CleanupSweep ==
  /\ cl.pc = "dirs" /\ cl.dirs = {} /\ cl.sub = {}
  /\ cl' = [cl EXCEPT !.pc = "sweep", !.dirs = WorkDirs]
  /\ CleanupFrame /\ UNCHANGED work

\* d.rmdir() on a working directory with these entries
Rmdir(entries) == IF entries = {WorkDir} THEN {} ELSE entries

\* d.rmdir(): an empty directory goes, any other stays (OSError is ignored)
CleanupRmdir ==
  /\ cl.pc = "sweep"
  /\ \E j \in cl.dirs :
       /\ \A k \in cl.dirs : k <= j
       /\ cl' = [cl EXCEPT !.dirs = @ \ {j}]
       /\ work' = [work EXCEPT ![j] = Rmdir(@)]
  /\ CleanupFrame

\* the command reports and returns
CleanupDone ==
  /\ cl.pc = "sweep" /\ cl.dirs = {}
  /\ cl' = [cl EXCEPT !.pc = "done"]
  /\ CleanupFrame /\ UNCHANGED work

\* one worker, CleanupJobs submissions, one run of the command
CleanupSlice == ASlice(1, CleanupJobs, CleanupTurns, CleanupTime)

CleanupInit ==
  WorkerInitIn({CleanupSlice}) /\ mg = MgIdle /\ cl = ClIdle /\ rt = RtIdle

CleanupNext ==
  \/ Next
  \/ CleanupStart \/ CleanupList \/ CleanupVisitFile \/ CleanupDirs
  \/ CleanupEnter \/ CleanupVisitSub \/ CleanupSweep \/ CleanupRmdir
  \/ CleanupDone

CleanupSpec == CleanupInit /\ [][CleanupNext]_vars

\* ------------------------------------------------ merge_segments by itself
\* Calls of merge_segments on every start-sorted list of at most MergeMaxLen
\* segments over a small universe, with the parameters of the worker's call
\* and with a second pair.
MergeMaxLen == 3
MergeSpeakers == {"A", "B", "C"}
MergeTimes == {0, 5, 100, 120, 200, 230, 250}
MergeUniverse == {s \in [speaker : MergeSpeakers, start : MergeTimes,
                         end : MergeTimes] : s.end > s.start}
MergeParams == {[min_dur |-> MIN_DUR, gap |-> GAP], [min_dur |-> 20, gap |-> 10]}

IsStartSorted(segs) ==
  \A i \in 1..(Len(segs) - 1) : segs[i].start <= segs[i + 1].start

MergeInputs ==
  {segs \in UNION {[1..k -> MergeUniverse] : k \in 0..MergeMaxLen} :
     IsStartSorted(segs)}

MergeInit ==
  /\ WorkerInit /\ cl = ClIdle /\ rt = RtIdle
  /\ nworkers = 1 /\ cap.jobs = SoloJobs /\ hf_token = <<" ">>
  /\ \E segs \in MergeInputs, p \in MergeParams :
       mg = [pc |-> "call", segments |-> segs, min_dur |-> p.min_dur,
             gap |-> p.gap, merged |-> <<>>, fixed |-> <<>>, again |-> <<>>]

\* the call runs to its return; merged and fixed are its two local lists
MergeCall ==
  /\ mg.pc = "call"
  /\ mg' = [mg EXCEPT !.pc = "return",
                       !.merged = Pass1(mg.segments, mg.gap),
                       !.fixed = merge_segments(mg.segments, mg.min_dur, mg.gap)]
  /\ UNCHANGED <<db, now, hf_token, nworkers, pc, job, model_cache, segments,
                 idx, results, work, claimers, log, faults, turns, cap, resp, cl, rt>>

\* merge_segments is called once more, on the list it returned
MergeAgain ==
  /\ mg.pc = "return"
  /\ mg' = [mg EXCEPT !.pc = "again",
                       !.again = merge_segments(mg.fixed, mg.min_dur, mg.gap)]
  /\ UNCHANGED <<db, now, hf_token, nworkers, pc, job, model_cache, segments,
                 idx, results, work, claimers, log, faults, turns, cap, resp, cl, rt>>

MergeNext == MergeCall \/ MergeAgain

MergeSpec == MergeInit /\ [][MergeNext]_vars

\* --------------------------------------- modal_app.py: run_transcription
\* The labelling loop of the remote engine on every start-ordered list of at
\* most RunMaxLen diarization turns over a small universe.  A time is a
\* number of ticks, TicksPerSample ticks to one audio sample, so that a turn
\* can begin or end between two samples.  Each turn carries the text that
\* asr_model returns for its slice, and is assumed to hold no line break.
RunMaxLen == 3
TicksPerSample == 2
\* librosa.load(..., sr=16000)
SR == 16000
\* sr * 0.5
MinSamples == SR \div 2
\* ticks in one second
Second == SR * TicksPerSample

RunSpeakers == {"SPEAKER_00", "SPEAKER_01", "SPEAKER_02"}
RunTimes == {0, 1, Second \div 2, Second \div 2 + 1}
RunTexts == {<<>>, <<" ">>, <<" ", "a">>}
\* len(audio): the number of samples loaded
AudioLens == {MinSamples \div 2, MinSamples}

RunUniverse ==
  {[start |-> a, end |-> b, speaker |-> sp, text |-> t] :
     a \in RunTimes, b \in RunTimes, sp \in RunSpeakers, t \in RunTexts}

\* diarization.itertracks yields turns of positive length in time order
RunInputs ==
  {ts \in UNION {[1..k -> {u \in RunUniverse : u.start < u.end}] :
                   k \in 0..RunMaxLen} :
     \A i \in 1..(Len(ts) - 1) : ts[i].start <= ts[i + 1].start}

\* int(turn.start * sr), int(turn.end * sr)
Sample(t) == t \div TicksPerSample

\* len(audio[start_sample:end_sample]) for an audio of n samples
SegmentLen(turn, n) ==
  Max2(0, Min2(Sample(turn.end), n) - Min2(Sample(turn.start), n))

\* faulty variant: a number is left out at every new speaker
NextNumSkipping(n) == n + 2

\* next_num += 1
NextNum(n) == n + 1

\* the label of number k; the code writes the two-character Japanese word for
\* "speaker" where this has "washa"
Label(k) == <<"washa ", ToString(k)>>

\* a time in tenths of a second, rounded
Tenths(t) == (20 * t + Second) \div (2 * Second)

\* f"{x:5.1f}": one decimal, right-aligned in five characters
F51(t) ==
  LET w == Tenths(t) \div 10
      pad == IF w < 10 THEN <<" ", " ">> ELSE IF w < 100 THEN <<" ">> ELSE <<>>
  IN pad \o <<ToString(w), ".", ToString(Tenths(t) % 10)>>

\* f"[{turn.start:5.1f}s - {turn.end:5.1f}s] {speaker_map[speaker]}: {text}"
RunLine(ln) ==
  <<"[">> \o F51(ln.start) \o <<"s - ">> \o F51(ln.end) \o <<"s] ">>
    \o Label(ln.num) \o <<": ">> \o ln.text

\* the for loop from turn number i on; a line is kept with the number of its
\* turn and the number of its label
RECURSIVE RunLoop(_, _, _, _, _, _)
RunLoop(ts, n, i, speaker_map, next_num, final_lines) ==
  IF i > Len(ts) THEN final_lines
  ELSE LET turn == ts[i]
           text == Strip(turn.text)
           known == turn.speaker \in DOMAIN speaker_map
           map2 == IF known THEN speaker_map
                   ELSE [sp \in DOMAIN speaker_map \cup {turn.speaker} |->
                           IF sp = turn.speaker THEN next_num
                           ELSE speaker_map[sp]]
           num2 == IF known THEN next_num ELSE NextNum(next_num)
       IN IF SegmentLen(turn, n) < MinSamples \/ text = <<>>
          THEN RunLoop(ts, n, i + 1, speaker_map, next_num, final_lines)
          ELSE RunLoop(ts, n, i + 1, map2, num2,
                       Append(final_lines,
                              [turn |-> i, start |-> turn.start,
                               end |-> turn.end, num |-> map2[turn.speaker],
                               text |-> text]))

\* speaker_map, next_num, final_lines = {}, 1, []
final_lines(ts, n) == RunLoop(ts, n, 1, [sp \in {} |-> 0], 1, <<>>)

\* return "\n".join(final_lines)
run_transcription(ts, n) ==
  Join([k \in 1..Len(final_lines(ts, n)) |-> RunLine(final_lines(ts, n)[k])])

RunInit ==
  /\ WorkerInit /\ mg = MgIdle /\ cl = ClIdle
  /\ nworkers = 1 /\ cap.jobs = SoloJobs /\ hf_token = <<" ">>
  /\ \E ts \in RunInputs, n \in AudioLens :
       rt = [pc |-> "call", turns |-> ts, audio_len |-> n,
             final_lines |-> <<>>, text |-> <<>>]

\* the loop runs over all turns
RunLoopDone ==
  /\ rt.pc = "call"
  /\ rt' = [rt EXCEPT !.pc = "joined",
                       !.final_lines = final_lines(rt.turns, rt.audio_len)]
  /\ UNCHANGED <<db, now, hf_token, nworkers, pc, job, model_cache, segments,
                 idx, results, work, claimers, log, faults, turns, cap, mg,
                 resp, cl>>

\* the call returns the joined lines
RunReturn ==
  /\ rt.pc = "joined"
  /\ rt' = [rt EXCEPT !.pc = "return",
                       !.text = run_transcription(rt.turns, rt.audio_len)]
  /\ UNCHANGED <<db, now, hf_token, nworkers, pc, job, model_cache, segments,
                 idx, results, work, claimers, log, faults, turns, cap, mg,
                 resp, cl>>

RunNext == RunLoopDone \/ RunReturn

RunSpec == RunInit /\ [][RunNext]_vars

\* ===================================================================
\* Properties
\* ===================================================================

\* positions of handle() between the claim and the terminal save
Processing == {"setup", "load", "transcode", "whole", "diarize", "seg", "asr"}
Terminal == {"done", "error"}

\* the worker whose in-memory job is j and that is inside its run
Holds(w, j) == job[w].id = j /\ pc[w] \in Processing \cup {"finally", "crashed"}

\* ---- C1 ---------------------------------------------------------------
\* Exclusive claim: for every job at most one worker's locked re-read ever
\* flips it from queued to running, a job has left queued exactly when some
\* worker flipped it, and a worker that is processing a job is that one
\* worker; a worker whose locked re-read finds the job no longer queued
\* writes nothing and is back at the selection.
ClaimedOnce ==
  \A j \in JobIds :
    /\ Cardinality(claimers[j]) <= 1
    /\ (db[j].status # "queued") <=> (claimers[j] # {})
    /\ \A w \in Workers : Holds(w, j) => claimers[j] = {w}

LoserRetries ==
  \A w \in Workers :
    (pc[w] = "lock" /\ db[job[w].id].status # "queued" /\ pc'[w] # "lock")
      => (db' = db /\ claimers' = claimers /\ pc'[w] = "select")

\* C1: each job is flipped from queued to running by at most one worker,
\* and a worker whose locked re-read finds it no longer queued writes
\* nothing and returns to the selection.
C1_ExclusiveClaim == []ClaimedOnce /\ [][LoserRetries]_vars

\* two workers selected the same job, one has flipped it and the other is
\* still before its locked re-read
C1_Witness ==
  \E j \in JobIds : \E w1 \in Workers : \E w2 \in Workers :
    /\ w1 # w2
    /\ claimers[j] = {w1}
    /\ pc[w2] = "lock" /\ job[w2].id = j

\* ---- C2 ---------------------------------------------------------------
\* FIFO: whenever a job goes from queued to running, no job with an earlier
\* creation time is queued at that moment.
OldestFirst ==
  \A j \in JobIds :
    (db[j].status = "queued" /\ db'[j].status = "running")
      => \A k \in JobIds :
           db[k].created_at < db[j].created_at => db[k].status # "queued"

\* C2: every queued -> running step takes a job with no older queued job.
C2_Fifo == [][OldestFirst]_vars

\* a job created later is running while an earlier one was claimed before it
C2_Witness ==
  \E j \in JobIds : \E k \in JobIds :
    /\ db[k].created_at < db[j].created_at
    /\ db[j].status = "running"
    /\ db[k].status = "running"

\* ---- C3 ---------------------------------------------------------------
\* Terminal exclusivity: a done job has an empty error_message, an error
\* job a non-empty one; a worker that has not yet made its terminal save
\* holds a running job and one that has made it holds a terminal job, so
\* that a run makes exactly one terminal save.
C3_TerminalExclusive ==
  /\ \A j \in JobIds :
       /\ db[j].status = "done" => db[j].error_message = <<>>
       /\ db[j].status = "error" => db[j].error_message # <<>>
  /\ \A w \in Workers :
       /\ pc[w] \in Processing => db[job[w].id].status = "running"
       /\ pc[w] = "finally" => db[job[w].id].status \in Terminal

\* one job has ended done and another has ended error
C3_Witness ==
  \E j \in JobIds : \E k \in JobIds :
    /\ db[j].status = "done" /\ db[j].error_message = <<>>
    /\ db[k].status = "error" /\ db[k].error_message # <<>>


\* ---- C4 ---------------------------------------------------------------
\* Progress monotonicity: the claim stores progress 0; while a job is
\* running no step stores a smaller progress than the one stored before;
\* the step that makes the job done stores exactly 100.
ProgressSteps ==
  \A j \in JobIds :
    /\ (db[j].status = "queued" /\ db'[j].status = "running")
         => db'[j].progress = 0
    /\ db[j].status = "running" => db'[j].progress >= db[j].progress
    /\ (db[j].status = "running" /\ db'[j].status = "done")
         => db'[j].progress = 100

\* C4: every step keeps the progress of a running job non-decreasing and
\* the step to done stores 100.
C4_ProgressMonotone == [][ProgressSteps]_vars

\* a diarize run of three merged segments has stored the progress of the
\* second one
C4_Witness ==
  \E w \in Workers :
    /\ pc[w] = "seg" /\ Len(segments[w]) = 3 /\ idx[w] = 2
    /\ db[job[w].id].status = "running"
    /\ db[job[w].id].progress = 66

\* ---- C5 ---------------------------------------------------------------
\* C5 as claimed: in every state, progress = 100 exactly for the done jobs.
C5_ProgressIffDone ==
  \A j \in JobIds : (db[j].progress = 100) <=> (db[j].status = "done")

\* C5 as amended: every done job has progress 100, no queued or error job
\* has, and a running job has progress 100 only in the diarize branch,
\* between the progress write of its last merged segment and the terminal
\* save.
C5_ProgressIffDoneAmended ==
  \A j \in JobIds :
    /\ db[j].status = "done" => db[j].progress = 100
    /\ db[j].status \in {"queued", "error"} => db[j].progress # 100
    /\ (db[j].status = "running" /\ db[j].progress = 100)
         => \E w \in Workers :
              /\ job[w].id = j /\ job[w].diarize
              /\ pc[w] = "seg"
              /\ idx[w] = Len(segments[w]) /\ idx[w] >= 1

\* a running job whose stored progress is already 100
C5_Witness ==
  \E j \in JobIds : db[j].status = "running" /\ db[j].progress = 100

\* ---- C6 ---------------------------------------------------------------
\* The status of a job changes only queued -> running, running -> done and
\* running -> error.
StatusSteps ==
  \A j \in JobIds :
    db'[j].status # db[j].status
      => <<db[j].status, db'[j].status>> \in
           {<<"queued", "running">>, <<"running", "done">>,
            <<"running", "error">>}

\* C6: every step changes a status only along queued -> running -> done or
\* queued -> running -> error.
C6_StatusMachine == [][StatusSteps]_vars

\* a job has ended and a worker has selected another job since
C6_Witness ==
  \E j \in JobIds : \E w \in Workers :
    /\ db[j].status \in Terminal
    /\ pc[w] = "lock" /\ job[w].id # j


\* ---- C7 ---------------------------------------------------------------
\* Failure propagation: a step in which a running job fails stores status
\* error with an error_message '<kind>: <message>' and leaves the worker
\* alive on its way to finally; the worker then returns to the selection;
\* and once a failure has been handled, every job that is queued is
\* eventually claimed.
ErrorKinds == {"RuntimeError", "FileNotFoundError", "Exception"}

FailureCaught ==
  \A j \in JobIds :
    (db[j].status = "running" /\ db'[j].status = "error")
      => /\ Len(db'[j].error_message) = 3
         /\ db'[j].error_message[1] \in ErrorKinds
         /\ db'[j].error_message[2] = ": "
         /\ \E w \in Workers : job'[w].id = j /\ pc'[w] = "finally"

BackToPolling ==
  \A w \in 1..PoolWorkers :
    (w \in Workers /\ pc[w] = "finally") ~> (w \in Workers /\ pc[w] = "select")

SomeFailureHandled == \E k \in JobIds : db[k].status = "error"

LaterJobsClaimed ==
  \A j \in 1..MaxJobs :
    (SomeFailureHandled /\ j \in JobIds /\ db[j].status = "queued")
      ~> (j \in JobIds /\ db[j].status # "queued")

\* C7: a failure in processing stores error with '<kind>: <message>' and
\* leaves the worker in finally; a worker in finally comes back to the
\* selection; once a failure has been handled every queued job is
\* eventually claimed.
C7_FailurePropagation ==
  /\ [][FailureCaught]_vars
  /\ BackToPolling
  /\ LaterJobsClaimed


\* the safety part of C7 alone, and its first liveness part alone
C7_Caught == [][FailureCaught]_vars
C7_BackToPolling == BackToPolling

\* ---- C8 ---------------------------------------------------------------
\* Input resolution failure: a job whose input_file is empty or unreadable
\* never becomes done, has no converted waveform and no inference call, and
\* while it is running its worker is alive and before the end of the
\* transcoding step (it is never left running); once in error it has a
\* non-empty error_message.
Usable(j) == db[j].input_file = "input/ok.wav"

C8_NoSourceFails ==
  \A j \in JobIds :
    ~Usable(j) =>
      /\ db[j].status # "done"
      /\ WavFile \notin work[j]
      /\ \A i \in 1..Len(log[j]) : log[j][i].op \notin {"diarize", "asr"}
      /\ db[j].status = "error" => db[j].error_message # <<>>
      /\ db[j].status = "running"
           => \E w \in Workers :
                job[w].id = j /\ pc[w] \in {"setup", "load", "transcode"}

\* ---- C9 ---------------------------------------------------------------
\* Cleanup: working files of a job exist only while the worker that claimed
\* it is between the creation of the directory and the end of finally; so a
\* worker at the selection has left no working files behind, and a job that
\* is terminal and released has none.
C9_Cleanup ==
  \A j \in 1..MaxJobs :
    work[j] # {} =>
      \E w \in Workers :
        /\ job[w].id = j
        /\ pc[w] \in {"load", "transcode", "whole", "diarize", "seg", "asr",
                      "finally"}

\* a job whose run cut a segment slice is terminal, its worker has moved
\* on, and its working directory is gone
C9_Witness ==
  \E j \in JobIds :
    /\ db[j].status \in Terminal
    /\ \E i \in 1..Len(log[j]) : log[j][i].op = "ffmpeg" /\ log[j][i].arg >= 1
    /\ \A w \in Workers : job[w].id # j
    /\ work[j] = {}

\* ---- C10 --------------------------------------------------------------
\* No-diarize path: for a job with diarize = false the diarization backend
\* is never called and the error is never the missing token; the
\* transcription backend is called at most once, on the whole waveform, and
\* exactly once when the job is done; then output_text is the returned text
\* without its leading and trailing whitespace.
AllWS(s) == \A i \in 1..Len(s) : s[i] \in WS

\* out is raw without a whitespace prefix and a whitespace suffix, and out
\* neither starts nor ends with whitespace
IsTrimOf(out, raw) ==
  /\ out = <<>> \/ (out[1] \notin WS /\ out[Len(out)] \notin WS)
  /\ \E a \in 0..Len(raw) : \E b \in a..Len(raw) :
       /\ out = SubSeq(raw, a + 1, b)
       /\ AllWS(SubSeq(raw, 1, a))
       /\ AllWS(SubSeq(raw, b + 1, Len(raw)))

AsrCalls(j) == {i \in 1..Len(log[j]) : log[j][i].op = "asr"}

Returned(res) == IF res.present THEN res.text ELSE <<>>

\* C10: a job with diarize = false has no diarization call and no token
\* error, at most one transcription call (on the whole waveform), exactly
\* one when done, and then output_text is the returned text trimmed.
C10_NoDiarizePath ==
  \A j \in JobIds :
    ~db[j].diarize =>
      /\ \A i \in 1..Len(log[j]) : log[j][i].op # "diarize"
      /\ db[j].error_message # FormatError(HfTokenError)
      /\ Cardinality(AsrCalls(j)) <= 1
      /\ \A i \in AsrCalls(j) : log[j][i].arg = 0
      /\ db[j].status = "done" =>
           /\ Cardinality(AsrCalls(j)) = 1
           /\ \A i \in AsrCalls(j) :
                IsTrimOf(db[j].output_text, Returned(log[j][i].ret))

\* a job without diarization is done while the token is blank, and its
\* stored text is shorter than the text the backend returned
C10_Witness ==
  \E j \in JobIds :
    /\ ~db[j].diarize /\ db[j].status = "done"
    /\ Strip(hf_token) = <<>>
    /\ db[j].output_text # <<>>
    /\ \E i \in AsrCalls(j) :
         Len(db[j].output_text) < Len(Returned(log[j][i].ret))


\* ---- C11 --------------------------------------------------------------
\* Merger on disjoint speakers.
MergeReturned == mg.pc = "return"

\* the speakers are pairwise distinct and each silence exceeds gap
DisjointApart(segs, gap) ==
  /\ \A i \in 1..Len(segs) : \A j \in 1..Len(segs) :
       i # j => segs[i].speaker # segs[j].speaker
  /\ \A i \in 1..(Len(segs) - 1) : segs[i + 1].start - segs[i].end > gap

LaterOnesLong(segs, min_dur) ==
  \A i \in 2..Len(segs) : segs[i].end - segs[i].start >= min_dur

\* C11 as claimed: on a list of distinct speakers with every silence longer
\* than gap, merge_segments returns its input.
C11_DisjointUnchanged ==
  (MergeReturned /\ DisjointApart(mg.segments, mg.gap)) => mg.fixed = mg.segments

\* C11 as amended: on such a list merge_segments returns its input exactly
\* when every segment after the first lasts at least min_dur; the first
\* pass returns the input in any case.
C11_DisjointUnchangedAmended ==
  (MergeReturned /\ DisjointApart(mg.segments, mg.gap))
    => /\ mg.merged = mg.segments
       /\ (mg.fixed = mg.segments)
            <=> LaterOnesLong(mg.segments, mg.min_dur)

\* three segments of three speakers, far apart and long enough, came back
\* as they were
C11_Witness ==
  /\ MergeReturned /\ Len(mg.segments) = 3
  /\ DisjointApart(mg.segments, mg.gap)
  /\ LaterOnesLong(mg.segments, mg.min_dur)
  /\ mg.fixed = mg.segments

\* ---- C12 --------------------------------------------------------------
\* The two passes as the specification words them, over list positions.
\* Pass 1: position i opens a segment unless it has the speaker of the open
\* segment and starts at most gap after the open segment's end; an open
\* segment's end is the greatest end coalesced into it.
SpecOpen(segs, gap) ==
  LET st[i \in 1..Len(segs)] ==
        IF i = 1 THEN [new |-> TRUE, end |-> segs[1].end]
        ELSE LET join == /\ segs[i].speaker = segs[i - 1].speaker
                         /\ segs[i].start - st[i - 1].end <= gap
             IN [new |-> ~join,
                 end |-> IF join /\ st[i - 1].end >= segs[i].end
                         THEN st[i - 1].end ELSE segs[i].end]
  IN st

\* the positions of heads in increasing order, and the last position of
\* the group a head starts
KthOf(heads, k) == CHOOSE h \in heads : Cardinality({g \in heads : g <= h}) = k

GroupEnd(heads, h, n) ==
  CHOOSE e \in h..n : /\ \A g \in heads : ~(h < g /\ g <= e)
                      /\ (e = n \/ (e + 1) \in heads)

SpecPass1(segs, gap) ==
  LET st == SpecOpen(segs, gap)
      heads == {i \in 1..Len(segs) : st[i].new}
  IN [k \in 1..Cardinality(heads) |->
        LET h == KthOf(heads, k)
        IN [speaker |-> segs[h].speaker, start |-> segs[h].start,
            end |-> st[GroupEnd(heads, h, Len(segs))].end]]

\* Pass 2: a segment is emitted when it is the first or lasts at least
\* min_dur; an emitted segment ends where the last fragment absorbed into
\* it ends.
SpecPass2(merged, min_dur) ==
  LET heads == {i \in 1..Len(merged) :
                  i = 1 \/ merged[i].end - merged[i].start >= min_dur}
  IN [k \in 1..Cardinality(heads) |->
        LET h == KthOf(heads, k)
        IN [speaker |-> merged[h].speaker, start |-> merged[h].start,
            end |-> merged[GroupEnd(heads, h, Len(merged))].end]]

\* C12: merge_segments returns the second pass of the first pass of its
\* input; the empty list gives the empty list; a non-empty list gives a
\* non-empty list that begins with the first input's speaker and start.
C12_TwoPass ==
  MergeReturned =>
    /\ mg.merged = SpecPass1(mg.segments, mg.gap)
    /\ mg.fixed = SpecPass2(mg.merged, mg.min_dur)
    /\ mg.segments = <<>> => mg.fixed = <<>>
    /\ mg.segments # <<>> =>
         /\ mg.fixed # <<>>
         /\ mg.fixed[1].speaker = mg.segments[1].speaker
         /\ mg.fixed[1].start = mg.segments[1].start

\* a call in which the first pass coalesced a segment that ends before the
\* open one, and the second pass absorbed a fragment of another speaker
C12_Witness ==
  /\ MergeReturned /\ Len(mg.segments) = 3
  /\ mg.segments[2].speaker = mg.segments[1].speaker
  /\ mg.segments[2].end < mg.segments[1].end
  /\ mg.segments[3].speaker # mg.segments[1].speaker
  /\ Len(mg.merged) = 2 /\ Len(mg.fixed) = 1
  /\ mg.fixed[1].end = mg.segments[3].end

\* ---- C13 --------------------------------------------------------------
Seg(speaker, start, end) == [speaker |-> speaker, start |-> start, end |-> end]

Example == <<Seg("A", 0, 100), Seg("A", 120, 200), Seg("B", 230, 250)>>

ExampleCall ==
  /\ MergeReturned /\ mg.segments = Example
  /\ mg.gap = 40 /\ mg.min_dur = 120

\* C13: on [{A,0,1},{A,1.2,2},{B,2.3,2.5}] with gap 0.4 and min_dur 1.2 the
\* first pass gives [{A,0,2},{B,2.3,2.5}] and the result is [{A,0,2.5}].
C13_Example ==
  ExampleCall =>
    /\ mg.merged = <<Seg("A", 0, 200), Seg("B", 230, 250)>>
    /\ mg.fixed = <<Seg("A", 0, 250)>>

\* the call of the example has returned one segment
C13_Witness == ExampleCall /\ Len(mg.fixed) = 1


\* ---- C14 --------------------------------------------------------------
\* Result retrieval.
\* a step that produces a new response answers 200 with the stored
\* output_text exactly when the row is done, and 404 without a body otherwise
DownloadAnswers ==
  resp' # resp =>
    LET id == resp'.id
    IN /\ (resp'.code = 200) <=> (id \in JobIds /\ db[id].status = "done")
       /\ resp'.code = 200 => resp'.body = db[id].output_text
       /\ resp'.code # 200 => (resp'.code = 404 /\ resp'.body = <<>>)

\* a body that was handed out is the stored text of a done job
HandedOutIsFinal ==
  resp.code = 200 =>
    /\ resp.id \in JobIds
    /\ db[resp.id].status = "done"
    /\ resp.body = db[resp.id].output_text

\* C14: a download returns output_text if and only if the stored status is
\* done and is rejected with 404 otherwise; what is returned is never a
\* partially assembled transcript.
C14_Download == [][DownloadAnswers]_vars /\ []HandedOutIsFinal

\* the download of a job was rejected, and its worker has assembled a
\* first line of the transcript in memory
C14_Witness ==
  /\ resp.code = 404
  /\ \E w \in Workers :
       /\ job[w].id = resp.id /\ pc[w] = "seg"
       /\ results[w] # <<>> /\ idx[w] < Len(segments[w])

\* a transcript was handed out
C14_Served == resp.code = 200 /\ resp.body # <<>>


\* ---- C15 --------------------------------------------------------------
\* Claim effect.
KeptByClaim == {"id", "created_at", "finished_at", "model_name", "language",
                "diarize", "input_file", "output_text"}

\* the step in which worker w leaves its locked re-read
ClaimStep(w) == pc[w] = "lock" /\ pc'[w] # "lock"

ClaimEffect ==
  \A w \in Workers :
    ClaimStep(w) =>
      IF pc'[w] = "setup"
      THEN LET j == job'[w].id
           IN /\ db[j].status = "queued" /\ db'[j].status = "running"
              /\ db'[j].started_at = now'
              /\ db'[j].progress = 0
              /\ db'[j].error_message = <<>>
              /\ \A f \in KeptByClaim : db'[j][f] = db[j][f]
              /\ Len(db') = Len(db)
              /\ \A k \in JobIds : k # j => db'[k] = db[k]
      ELSE /\ pc'[w] = "select"
           /\ db[job[w].id].status # "queued"
           /\ db' = db

\* C15: a successful claim sets status, started_at, progress and
\* error_message of the claimed job and changes no other field of it and no
\* other job; a claim attempt that finds the job no longer queued changes
\* no field of any job.
C15_ClaimEffect == [][ClaimEffect]_vars

\* a job was claimed later than it was created, next to a job that has
\* already ended
C15_Witness ==
  \E w \in Workers : \E k \in JobIds :
    /\ pc[w] = "setup" /\ k # job[w].id
    /\ db[job[w].id].status = "running"
    /\ db[job[w].id].started_at > db[job[w].id].created_at
    /\ db[k].status \in Terminal


\* ---- C16 --------------------------------------------------------------
\* No automatic recovery.
\* job j is running and the worker that claimed it has stopped
Abandoned(j) ==
  /\ j \in JobIds /\ db[j].status = "running"
  /\ \E w \in Workers : w \in claimers[j] /\ job[w].id = j /\ pc[w] = "crashed"

NoRecovery ==
  \A j \in 1..MaxJobs :
    Abandoned(j) =>
      /\ Abandoned(j)'
      /\ db'[j] = db[j]
      /\ claimers'[j] = claimers[j]
      /\ \A w \in Workers : job'[w].id = j => job[w].id = j

\* C16: once the worker that claimed a job has stopped before its terminal
\* save, every step leaves the job running and its row unchanged, and no
\* worker newly selects or claims it.
C16_NoRecovery == [][NoRecovery]_vars

\* a worker was stopped in the middle of a run (its working files are left
\* behind); the other worker has since taken a later job to its end
C16_Witness ==
  \E j \in JobIds : \E k \in JobIds : \E w \in Workers :
    /\ Abandoned(j) /\ WavFile \in work[j]
    /\ k # j /\ db[k].status \in Terminal
    /\ db[k].started_at >= db[j].started_at
    /\ job[w].id # j /\ pc[w] = "select"


\* ---- C17 --------------------------------------------------------------
\* Tie-break by id.
SelectsSmallestId ==
  \A w \in Workers :
    (pc[w] = "select" /\ pc'[w] = "lock") =>
      \A k \in Queued :
        db[k].created_at = db[job'[w].id].created_at => job'[w].id <= k

\* C17: among queued jobs of the same creation time the selection takes
\* the one with the smallest id.
C17_TieBreakById == [][SelectsSmallestId]_vars


\* ---- C18 --------------------------------------------------------------
\* Progress writes touch the progress column only.
KeptByProgress == {"id", "status", "created_at", "started_at", "finished_at",
                   "model_name", "language", "diarize", "input_file",
                   "output_text", "error_message"}

\* the step in which worker w ends the body of the segment loop normally
ProgressStep(w) == pc[w] = "asr" /\ pc'[w] = "seg"

ProgressWriteFrame ==
  \A w \in Workers :
    ProgressStep(w) =>
      LET j == job[w].id
      IN /\ db[j].status = "running" /\ db'[j].status = "running"
         /\ \A f \in KeptByProgress : db'[j][f] = db[j][f]
         /\ Len(db') = Len(db)
         /\ \A k \in JobIds : k # j => db'[k] = db[k]

EmptyUntilTerminal ==
  \A j \in JobIds :
    /\ db[j].status \in {"queued", "running"} => db[j].output_text = <<>>
    /\ db[j].status # "error" => db[j].error_message = <<>>

\* C18: a progress write changes the stored progress of its job and
\* nothing else; output_text is empty while a job is queued or running and
\* error_message is empty unless the status is error.
C18_ProgressWriteOnly == [][ProgressWriteFrame]_vars /\ []EmptyUntilTerminal

\* a worker has assembled a line and stored a progress strictly between 0
\* and 100, and the stored output_text is still empty
C18_Witness ==
  \E w \in Workers :
    /\ pc[w] = "seg" /\ results[w] # <<>>
    /\ db[job[w].id].status = "running"
    /\ db[job[w].id].progress > 0 /\ db[job[w].id].progress < 100
    /\ db[job[w].id].output_text = <<>>


\* ---- C19 --------------------------------------------------------------
\* Diarize-path output assembly.
IsAsr(c) == c.op = "asr"

\* the transcription calls made for job j, in the order they were made
AsrSeq(j) == SelectSeq(log[j], IsAsr)

\* the positions up to n of the segments that last at least 0.1 s, ascending
Eligible(segs, n) ==
  LET E == {i \in 1..n : segs[i].end - segs[i].start >= SKIP_DUR}
  IN [k \in 1..Cardinality(E) |-> KthOf(E, k)]

\* the text without its leading and trailing whitespace
TrimOf(raw) ==
  CHOOSE out \in {SubSeq(raw, a + 1, b) : a \in 0..Len(raw), b \in 0..Len(raw)} :
    IsTrimOf(out, raw)

\* the transcript built call by call: a call whose trimmed text is not
\* empty adds, after a newline unless it is the first, its labelled line
RECURSIVE Assemble(_, _, _)
Assemble(acc, calls, segs) ==
  IF calls = <<>> THEN acc
  ELSE LET c == Head(calls)
           t == TrimOf(Returned(c.ret))
           ln == <<"[", segs[c.arg].speaker, "]: ">> \o t
       IN Assemble(IF t = <<>> THEN acc
                   ELSE IF acc = <<>> THEN ln ELSE acc \o <<"\n">> \o ln,
                   Tail(calls), segs)

\* C19: for a job with diarize = true the transcription calls made so far
\* are, in order and once each, those of the merged segments of at least
\* 0.1 s that the loop has passed; when the job is done they are all of
\* them and output_text is the newline-join of the lines
\* '[<speaker>]: <text>' of the calls whose trimmed text is not empty.
C19_DiarizeAssembly ==
  \A w \in Workers :
    (job[w].diarize /\ pc[w] \in {"seg", "asr", "finally"}) =>
      LET j == job[w].id
          segs == segments[w]
          args == [k \in 1..Len(AsrSeq(j)) |-> AsrSeq(j)[k].arg]
      IN /\ pc[w] = "seg" => args = Eligible(segs, idx[w])
         /\ pc[w] = "asr" => args = Eligible(segs, idx[w] - 1)
         /\ (pc[w] = "finally" /\ db[j].status = "done") =>
              /\ args = Eligible(segs, Len(segs))
              /\ db[j].output_text = Assemble(<<>>, AsrSeq(j), segs)

\* a diarize job is done: one merged segment was too short to transcribe,
\* one call returned only whitespace and one returned text
C19_Witness ==
  \E w \in Workers :
    /\ job[w].diarize /\ pc[w] = "finally"
    /\ db[job[w].id].status = "done"
    /\ Len(segments[w]) = 3 /\ Len(AsrSeq(job[w].id)) = 2
    /\ \E k \in 1..2 : TrimOf(Returned(AsrSeq(job[w].id)[k].ret)) = <<>>
    /\ db[job[w].id].output_text # <<>>


\* ---- C20 --------------------------------------------------------------
\* Progress formula.
\* q is floor(a / n)
IsFloorDiv(q, a, n) == q * n <= a /\ a < (q + 1) * n

\* the loop of worker w has passed exactly i segments
Passed(w, i) == job[w].diarize /\ pc[w] = "seg" /\ idx[w] = i /\ i >= 1

ProgressInRange == \A j \in JobIds : db[j].progress \in 0..100

\* C20: when the loop has passed the merged segment at position i of n, the
\* stored progress is floor(i * 100 / n); every stored progress is in 0..100.
C20_ProgressFormula ==
  /\ ProgressInRange
  /\ \A w \in Workers : \A i \in 1..Len(segments[w]) :
       Passed(w, i) =>
         IsFloorDiv(db[job[w].id].progress, i * 100, Len(segments[w]))

\* the same for the positions whose segment was transcribed: a segment
\* shorter than 0.1 s is passed without a progress write
C20_TranscribedOnly ==
  /\ ProgressInRange
  /\ \A w \in Workers : \A i \in 1..Len(segments[w]) :
       (Passed(w, i) /\ segments[w][i].end - segments[w][i].start >= SKIP_DUR) =>
         IsFloorDiv(db[job[w].id].progress, i * 100, Len(segments[w]))


\* ---- C21 --------------------------------------------------------------
\* C21: a queued job has neither started_at nor finished_at; a running job
\* has started_at and no finished_at; a done or error job has both, with
\* started_at not later than finished_at.
C21_Timestamps ==
  \A j \in JobIds :
    /\ db[j].status = "queued" =>
         (db[j].started_at = Null /\ db[j].finished_at = Null)
    /\ db[j].status = "running" =>
         (db[j].started_at # Null /\ db[j].finished_at = Null)
    /\ db[j].status \in Terminal =>
         /\ db[j].started_at # Null /\ db[j].finished_at # Null
         /\ db[j].started_at <= db[j].finished_at

\* one job is done and one is in error, each stamped at its end, one of
\* them later than it was started
C21_Witness ==
  \E j \in JobIds : \E k \in JobIds :
    /\ db[j].status = "done" /\ db[k].status = "error"
    /\ db[j].finished_at # Null /\ db[k].finished_at # Null
    /\ db[j].started_at < db[j].finished_at \/ db[k].started_at < db[k].finished_at


\* ---- C22 --------------------------------------------------------------
\* Missing diarization credential.
TokenMissing == AllWS(hf_token)

TokenMessage ==
  <<"RuntimeError", ": ",
    "HF_TOKEN is missing. Set HF_TOKEN in environment variables.">>

Ops(j, op) == {i \in 1..Len(log[j]) : log[j][i].op = op}

\* while the token is missing, a diarize job is never done, no diarization
\* and no transcription is called for it and the waveform is converted at
\* most once (by the worker's own step); if its input is readable and no
\* tool or model failed, its error is the message that names the token
MissingTokenFails ==
  \A j \in JobIds :
    (TokenMissing /\ db[j].diarize) =>
      /\ db[j].status # "done"
      /\ Ops(j, "diarize") = {} /\ Ops(j, "asr") = {}
      /\ Cardinality(Ops(j, "ffmpeg")) <= 1
      /\ (db[j].status = "error" /\ Usable(j) /\ faults = 0) =>
           db[j].error_message = TokenMessage

\* the step that stores the token error leaves the worker on its way to
\* finally
TokenErrorCaught ==
  \A j \in JobIds :
    (db[j].status = "running" /\ db'[j].status = "error"
       /\ db'[j].error_message = TokenMessage)
      => \E w \in Workers : job'[w].id = j /\ pc'[w] = "finally"

\* a worker that has stored the token error polls again
TokenErrorThenPolls ==
  \A w \in 1..PoolWorkers :
    (w \in Workers /\ pc[w] = "finally"
       /\ db[job[w].id].error_message = TokenMessage)
      ~> (w \in Workers /\ pc[w] = "select")

\* when a job is waiting at that moment, the worker goes on to claim a job
TokenErrorThenNext ==
  \A w \in 1..PoolWorkers :
    (w \in Workers /\ pc[w] = "finally" /\ Queued # {}
       /\ db[job[w].id].error_message = TokenMessage)
      ~> (w \in Workers /\ pc[w] = "setup")

\* C22: with the token unset or blank a diarize job ends in error with the
\* message naming HF_TOKEN, before any diarization call and without any
\* transcription; the worker then returns to the selection and claims the
\* next job.
C22_MissingToken ==
  /\ []MissingTokenFails
  /\ [][TokenErrorCaught]_vars
  /\ TokenErrorThenPolls
  /\ TokenErrorThenNext

\* the safety part of C22 alone
C22_Safety == []MissingTokenFails /\ [][TokenErrorCaught]_vars

\* a diarize job has failed on the unset token and the worker is running
\* another job
C22_Witness ==
  \E j \in JobIds : \E k \in JobIds :
    /\ hf_token = <<>> /\ db[j].diarize
    /\ db[j].status = "error" /\ db[j].error_message = TokenMessage
    /\ k # j /\ db[k].status = "running"
    /\ \E w \in Workers : job[w].id = k /\ pc[w] \in Processing


\* ---- C23 --------------------------------------------------------------
\* One job per worker at a time.
\* the jobs that worker w has claimed and that are still running
Owned(w) == {j \in JobIds : w \in claimers[j] /\ db[j].status = "running"}

Running == {j \in JobIds : db[j].status = "running"}

\* a worker at the selection or at the locked re-read has brought every job
\* it claimed to a terminal state and removed its working files
IdleAfterCleanup ==
  \A w \in Workers :
    pc[w] \in {"select", "lock"} =>
      \A j \in JobIds :
        w \in claimers[j] => (db[j].status \in Terminal /\ work[j] = {})

NoCrash == \A w \in Workers : pc[w] # "crashed"

\* C23: a worker selects or claims only when every job it claimed is
\* terminal and cleaned up; while no worker has crashed each worker owns at
\* most one running job and no more jobs are running than there are workers.
C23_OneJobPerWorker ==
  /\ IdleAfterCleanup
  /\ NoCrash =>
       /\ \A w \in Workers : Cardinality(Owned(w)) <= 1
       /\ Cardinality(Running) <= nworkers

\* both workers of the pool own a running job at once
C23_Witness ==
  /\ NoCrash /\ nworkers = 2
  /\ Cardinality(Running) = 2
  /\ \A w \in Workers : Cardinality(Owned(w)) = 1


\* ---- C24 --------------------------------------------------------------
\* Ends never move earlier.
\* the number of the group that position i falls into
GroupOf(heads, i) == Cardinality({h \in heads : h <= i})

Pass1Heads(segs, gap) ==
  {i \in 1..Len(segs) : SpecOpen(segs, gap)[i].new}

Pass2Heads(merged, min_dur) ==
  {i \in 1..Len(merged) :
     i = 1 \/ merged[i].end - merged[i].start >= min_dur}

\* the output segment that input position i ended up in
OutputOf(i) ==
  GroupOf(Pass2Heads(mg.merged, mg.min_dur),
          GroupOf(Pass1Heads(mg.segments, mg.gap), i))

\* C24: every output segment ends no earlier than each input segment that
\* was coalesced or absorbed into it.
C24_EndNeverEarlier ==
  MergeReturned =>
    \A i \in 1..Len(mg.segments) :
      mg.fixed[OutputOf(i)].end >= mg.segments[i].end

\* the same after the first pass alone
C24_Pass1Only ==
  MergeReturned =>
    \A i \in 1..Len(mg.segments) :
      mg.merged[GroupOf(Pass1Heads(mg.segments, mg.gap), i)].end
        >= mg.segments[i].end

NoOverlap(segs) ==
  \A i \in 1..(Len(segs) - 1) : segs[i + 1].start >= segs[i].end

\* the same for inputs without overlap
C24_NoOverlapOnly ==
  (MergeReturned /\ NoOverlap(mg.segments)) =>
    \A i \in 1..Len(mg.segments) :
      mg.fixed[OutputOf(i)].end >= mg.segments[i].end


\* ---- C25 --------------------------------------------------------------
\* Idempotence of merge_segments.
MergedAgain == mg.pc = "again"

\* no two neighbours that the first pass would coalesce, and no segment
\* after the first that the second pass would absorb
Stable(segs, min_dur, gap) ==
  /\ \A i \in 1..(Len(segs) - 1) :
       ~(/\ segs[i + 1].speaker = segs[i].speaker
         /\ segs[i + 1].start - segs[i].end <= gap)
  /\ \A i \in 2..Len(segs) : segs[i].end - segs[i].start >= min_dur

\* C25 as claimed: merge_segments applied to its own output returns that
\* output, and the output is stable.
C25_Idempotent ==
  MergedAgain =>
    (mg.again = mg.fixed /\ Stable(mg.fixed, mg.min_dur, mg.gap))

\* C25 as amended: merge_segments applied to its own output returns that
\* output exactly when the output is stable; the output is sorted by start
\* and the second application returns no more segments than it was given.
C25_IdempotentAmended ==
  MergedAgain =>
    /\ (mg.again = mg.fixed) <=> Stable(mg.fixed, mg.min_dur, mg.gap)
    /\ IsStartSorted(mg.fixed)
    /\ Len(mg.again) <= Len(mg.fixed)

\* a call that shortened its input returned a stable list of two segments,
\* and the second call returned the same list
C25_Witness ==
  /\ MergedAgain /\ Len(mg.segments) = 3 /\ Len(mg.fixed) = 2
  /\ Stable(mg.fixed, mg.min_dur, mg.gap)
  /\ mg.again = mg.fixed

\* the second call coalesced two segments that the first call had made
\* neighbours by absorbing the fragment between them
C25_Unstable ==
  /\ MergedAgain /\ NoOverlap(mg.segments)
  /\ Len(mg.fixed) = 2 /\ Len(mg.again) = 1


\* ---- C26 --------------------------------------------------------------
\* Shape of the output for inputs without overlap.
Duration(seg) == seg.end - seg.start

\* C26: for a start-sorted input without overlap the output is sorted by
\* start, each of its segments has end > start, it has at most as many
\* segments as the input and every segment after the first lasts at least
\* min_dur; with min_dur = 1.2 no segment after the first is shorter than
\* the 0.1 s below which the worker skips a segment.
C26_OutputShape ==
  (MergeReturned /\ NoOverlap(mg.segments)) =>
    /\ IsStartSorted(mg.fixed)
    /\ \A i \in 1..Len(mg.fixed) : mg.fixed[i].end > mg.fixed[i].start
    /\ Len(mg.fixed) <= Len(mg.segments)
    /\ \A i \in 2..Len(mg.fixed) : Duration(mg.fixed[i]) >= mg.min_dur
    /\ mg.min_dur = 120 =>
         \A i \in 2..Len(mg.fixed) : Duration(mg.fixed[i]) >= 10

\* an input without overlap came back shorter, with a first segment that
\* the worker would skip and a second one of at least min_dur
C26_Witness ==
  /\ MergeReturned /\ NoOverlap(mg.segments) /\ mg.min_dur = 120
  /\ Len(mg.segments) = 3 /\ Len(mg.fixed) = 2
  /\ Duration(mg.fixed[1]) < 10
  /\ Duration(mg.fixed[2]) >= 120

\* with overlap, a segment after the first can come out shorter than 0.1 s
C26_OverlapShort ==
  /\ MergeReturned /\ mg.min_dur = 120
  /\ \E i \in 2..Len(mg.fixed) : Duration(mg.fixed[i]) < 10

\* ------------------------------------------------------------------- C27
\* the job is queued or running
Live(j) == db[j].status \in {"queued", "running"}

\* this step takes the uploaded file of job j off the disk
InputUnlinked(j) == j \in cl'.deleted /\ j \notin cl.deleted

\* this step takes a file out of the working directory of job j
WorkFileUnlinked(j) == ~((work[j] \ {WorkDir}) \subseteq work'[j])

\* C27: the cleanup command, run beside submissions and a worker in any
\* interleaving, never deletes a file of a queued or running job: neither the
\* job's uploaded file nor a file in its working directory.
C27_NeverDeletesLiveFile ==
  [][\A j \in JobIds : Live(j) => ~InputUnlinked(j) /\ ~WorkFileUnlinked(j)]_vars

\* the first half by itself: the uploaded file of a queued or running job
\* stays
C27_InputKept == [][\A j \in JobIds : Live(j) => ~InputUnlinked(j)]_vars

\* the second half by itself: the files in the working directory of a queued
\* or running job stay
C27_WorkFilesKept == [][\A j \in JobIds : Live(j) => ~WorkFileUnlinked(j)]_vars

\* what the command does keep: the uploaded file of a job whose row was there
\* when the referenced names were read
C27_ReferencedKept == [][\A j \in cl.referenced : ~InputUnlinked(j)]_vars

\* the command has deleted the uploaded file of a job that is still queued
C27_QueuedInputDeleted ==
  \E j \in JobIds : db[j].status = "queued" /\ j \in cl.deleted

\* a running job has gone on to the except block because the command took
\* its converted waveform away
C27_WaveformDeleted ==
  \E j \in JobIds :
    /\ db[j].status = "error"
    /\ db[j].error_message = FormatError(LoadAudioError)

\* ------------------------------------------------------------------- C28
\* run_transcription has returned
RunReturned == rt.pc = "return"

\* the turn that line k was made from
TurnOf(k) == rt.turns[rt.final_lines[k].turn]

\* the returned text is the lines, each with the label of its number
LinesLabelled ==
  rt.text = Join([k \in 1..Len(rt.final_lines) |-> RunLine(rt.final_lines[k])])

\* the numbers are 1, 2, ... in the order in which they first appear
NumbersInOrder ==
  \A k \in 1..Len(rt.final_lines) :
    \A n \in 1..(rt.final_lines[k].num - 1) :
      \E j \in 1..(k - 1) : rt.final_lines[j].num = n

\* two lines have the same number exactly when their turns have the same
\* speaker
SameLabelSameSpeaker ==
  \A i, j \in 1..Len(rt.final_lines) :
    (rt.final_lines[i].num = rt.final_lines[j].num)
      <=> (TurnOf(i).speaker = TurnOf(j).speaker)

\* the lines are in the order of their turns and carry the trimmed text
InTurnOrder ==
  /\ \A i, j \in 1..Len(rt.final_lines) :
       i < j => rt.final_lines[i].turn < rt.final_lines[j].turn
  /\ \A k \in 1..Len(rt.final_lines) :
       rt.final_lines[k].text = Strip(TurnOf(k).text)

\* turn number i has a line
HasLine(i) == \E k \in 1..Len(rt.final_lines) : rt.final_lines[k].turn = i

\* the turn lasts less than half a second
ShorterThanHalfSecond(turn) == 2 * (turn.end - turn.start) < Second

\* the slice of the turn has fewer than sr * 0.5 samples
FewerThanMinSamples(turn) == SegmentLen(turn, rt.audio_len) < MinSamples

\* C28: in the text returned by run_transcription every line carries a label
\* with a number; the numbers are 1, 2, ... in order of first appearance
\* among the emitted lines; a turn shorter than 0.5 s or with empty text
\* emits no line and uses up no number; two lines carry the same label if and
\* only if their diarization speaker is the same; the lines are in turn order.
C28_Labelling ==
  RunReturned =>
    /\ LinesLabelled /\ NumbersInOrder /\ SameLabelSameSpeaker /\ InTurnOrder
    /\ \A i \in 1..Len(rt.turns) :
         ShorterThanHalfSecond(rt.turns[i]) \/ Strip(rt.turns[i].text) = <<>>
           => ~HasLine(i)

\* C28, amended: as above, with the test the code makes: a turn emits a line
\* if and only if its slice of the audio, from sample int(start * sr) to
\* sample int(end * sr) and cut at the end of the audio, has at least
\* sr * 0.5 samples and its trimmed text is not empty.
C28_LabellingAmended ==
  RunReturned =>
    /\ LinesLabelled /\ NumbersInOrder /\ SameLabelSameSpeaker /\ InTurnOrder
    /\ \A i \in 1..Len(rt.turns) :
         HasLine(i) <=> /\ ~FewerThanMinSamples(rt.turns[i])
                        /\ Strip(rt.turns[i].text) # <<>>

\* a call that skipped a turn and returned lines of two speakers
C28_Witness ==
  /\ RunReturned
  /\ Len(rt.final_lines) < Len(rt.turns)
  /\ \E i, j \in 1..Len(rt.final_lines) :
       rt.final_lines[i].num # rt.final_lines[j].num

\* a call that returned two lines with the same label around another
C28_LabelReused ==
  /\ RunReturned
  /\ Len(rt.final_lines) = 3
  /\ rt.final_lines[1].num = rt.final_lines[3].num
  /\ rt.final_lines[2].num # rt.final_lines[1].num

\* a line made from a turn shorter than half a second
C28_ShortTurnEmitted ==
  /\ RunReturned
  /\ \E k \in 1..Len(rt.final_lines) : ShorterThanHalfSecond(TurnOf(k))
====
